---- MODULE Spec2Model ----
(***************************************************************************)
(* Proof-of-work client puzzle (src/src/lib.rs): create_challenge,         *)
(* solve_challenge with one solve_fragment task per fragment, hash_found   *)
(* and verify_solution.                                                    *)
(*                                                                         *)
(* Scaling.  TLC's integers are 32-bit signed, so u32::MAX itself cannot   *)
(* be written; the model's words are 0 .. U32_MAX for a small U32_MAX.     *)
(* The only arithmetic on words is u32::MAX - difficulty and the strict    *)
(* comparison against it, neither of which can wrap.  Fragments (16-byte   *)
(* blobs, used only through equality and as hash input) are 0 .. MaxBlob,  *)
(* nonces (u128) are 0 .. MaxNonce.                                        *)
(*                                                                         *)
(* Blake2b512 belongs to the crypto_hashes crate.  The program uses only   *)
(* that it is a fixed function of (fragment, nonce); the model draws that  *)
(* function from the tables enumerated by `seed` (see Digest).             *)
(***************************************************************************)
EXTENDS Integers, Sequences, FiniteSets, Bags

\* ----------------------------------------------------------------- bounds
\* largest word: stands for u32::MAX (lib.rs:82)
U32_MAX == 1
\* fragments are the blobs 0 .. MaxBlob
MaxBlob == 1
\* nonces scanned and offered to the verifier are 0 .. MaxNonce
MaxNonce == 1
\* create_challenge is called with num_fragments in 0 .. MaxFragments
MaxFragments == 2
\* a Solution handed to verify_solution has at most MaxProofs proofs
MaxProofs == 2
\* the digest tables explored are those numbered 0 .. MaxSeed; with the
\* values here, (U32_MAX + 1)^((MaxBlob + 1) * (MaxNonce + 1)) = 16 tables:
\* every function from (fragment, nonce) to words
MaxSeed == 15

Words == 0 .. U32_MAX
Blobs == 0 .. MaxBlob
Nonces == 0 .. MaxNonce
Seeds == 0 .. MaxSeed

RECURSIVE Pow(_, _)
Pow(b, e) == IF e = 0 THEN 1 ELSE b * Pow(b, e - 1)

\* All sequences over S of length at most n.
SeqsUpTo(S, n) == UNION {[1 .. k -> S] : k \in 0 .. n}

\* The bag of the elements of a sequence.
RECURSIVE BagOfSeq(_)
BagOfSeq(s) == IF s = <<>> THEN EmptyBag ELSE SetToBag({Head(s)}) (+) BagOfSeq(Tail(s))

\* s without its i-th element.
RemoveAt(s, i) == [k \in 1 .. Len(s) - 1 |-> IF k < i THEN s[k] ELSE s[k + 1]]

\* ------------------------------------------------------------- the digest
\* u32::from_be_bytes(hash[0..4]) of Blake2b512(fragment ++ nonce.to_le_bytes()).
\* Table number sd gives input (fragment, nonce) the digit of sd, written in
\* base U32_MAX + 1, at position nonce * (MaxBlob + 1) + fragment: the tables
\* 0 .. (U32_MAX + 1)^((MaxBlob + 1) * (MaxNonce + 1)) - 1 are all the
\* functions from (fragment, nonce) to words.
Digest(sd, fragment, nonce) ==
    (sd \div Pow(U32_MAX + 1, nonce * (MaxBlob + 1) + fragment)) % (U32_MAX + 1)

VARIABLES
    seed,       \* which digest table Blake2b512 is
    challenge,  \* Challenge {difficulty, fragments}
    set,        \* the JoinSet: one entry per spawned solve_fragment task;
                \* joined marks an entry join_next has handed out
    pc,         \* where solve_challenge / the caller stands
    panic,      \* which unwrap() aborted solve_challenge, or "none"
    result,     \* solve_challenge's local Vec of proofs
    rx_cnt,     \* number of live receivers of the progress channel
    sent,       \* the nonces delivered on the progress channel, in order
    solution,   \* the Solution handed to verify_solution
    verdict,    \* what verify_solution returned, or "none"
    tamper      \* how the caller last changed the solution, or kind "none"

vars == <<seed, challenge, set, pc, panic, result, rx_cnt, sent, solution, verdict, tamper>>

\* A threshold that grows with the difficulty: the difficulty itself.
Threshold_plain(difficulty) == difficulty

\* The acceptance threshold, u32::MAX - difficulty (lib.rs:82).
Threshold(difficulty) == U32_MAX - difficulty

\* hash_found comparing with <= for <.
hash_found_le(fragment, difficulty, nonce) ==
    Digest(seed, fragment, nonce) <= Threshold(difficulty)

\* fn hash_found(fragment, difficulty, nonce) -> bool
hash_found(fragment, difficulty, nonce) ==
    Digest(seed, fragment, nonce) < Threshold(difficulty)

\* verify_solution with the completeness loop (lib.rs:87-91) left out.
verify_solution_no_coverage(c, s) ==
    \A j \in 1 .. Len(s.proofs) :
        hash_found(s.proofs[j][1], c.difficulty, s.proofs[j][2])

\* verify_solution whose completeness loop looks at the first fragment only.
verify_solution_first_fragment(c, s) ==
    /\ \A i \in 1 .. Len(c.fragments) :
           i = 1 => \E j \in 1 .. Len(s.proofs) : s.proofs[j][1] = c.fragments[i]
    /\ \A j \in 1 .. Len(s.proofs) :
           hash_found(s.proofs[j][1], c.difficulty, s.proofs[j][2])

\* verify_solution whose soundness loop (lib.rs:93-98) checks the first
\* proof only.
verify_solution_first_proof(c, s) ==
    /\ \A i \in 1 .. Len(c.fragments) :
           \E j \in 1 .. Len(s.proofs) : s.proofs[j][1] = c.fragments[i]
    /\ \A j \in 1 .. Len(s.proofs) :
           j = 1 => hash_found(s.proofs[j][1], c.difficulty, s.proofs[j][2])

\* verify_solution that rejects a solution without proofs.
verify_solution_nonempty(c, s) ==
    /\ s.proofs # <<>>
    /\ \A i \in 1 .. Len(c.fragments) :
           \E j \in 1 .. Len(s.proofs) : s.proofs[j][1] = c.fragments[i]
    /\ \A j \in 1 .. Len(s.proofs) :
           hash_found(s.proofs[j][1], c.difficulty, s.proofs[j][2])

\* verify_solution whose soundness loop skips the proofs of fragments that
\* are not in the challenge.
verify_solution_own_fragments(c, s) ==
    /\ \A i \in 1 .. Len(c.fragments) :
           \E j \in 1 .. Len(s.proofs) : s.proofs[j][1] = c.fragments[i]
    /\ \A j \in 1 .. Len(s.proofs) :
           (\E i \in 1 .. Len(c.fragments) : s.proofs[j][1] = c.fragments[i])
               => hash_found(s.proofs[j][1], c.difficulty, s.proofs[j][2])

\* verify_solution that also wants as many proofs as fragments.
verify_solution_exact_count(c, s) ==
    /\ Len(s.proofs) = Len(c.fragments)
    /\ \A i \in 1 .. Len(c.fragments) :
           \E j \in 1 .. Len(s.proofs) : s.proofs[j][1] = c.fragments[i]
    /\ \A j \in 1 .. Len(s.proofs) :
           hash_found(s.proofs[j][1], c.difficulty, s.proofs[j][2])

\* pub fn verify_solution(challenge, solution) -> bool
verify_solution(c, s) ==
    IF \E i \in 1 .. Len(c.fragments) :
           \A j \in 1 .. Len(s.proofs) : s.proofs[j][1] # c.fragments[i]
    THEN FALSE
    ELSE IF \E j \in 1 .. Len(s.proofs) :
                ~hash_found(s.proofs[j][1], c.difficulty, s.proofs[j][2])
         THEN FALSE
         ELSE TRUE

\* pub fn create_challenge(difficulty, num_fragments) -> Challenge
create_challenge(difficulty, num_fragments) ==
    {[difficulty |-> difficulty, fragments |-> fs] : fs \in [1 .. num_fragments -> Blobs]}

NoTamper == [kind |-> "none"]

\* The state when solve_challenge is called on a fresh challenge.
Init ==
    /\ seed \in Seeds
    /\ \E d \in Words, k \in 0 .. MaxFragments : challenge \in create_challenge(d, k)
    /\ set = <<>>
    /\ pc = "spawn"
    /\ panic = "none"
    /\ result = <<>>
    /\ rx_cnt \in {0, 1}
    /\ sent = <<>>
    /\ solution = [proofs |-> <<>>]
    /\ verdict = "none"
    /\ tamper = NoTamper

\* Spawn whose tasks start their scan at nonce 1.
Spawn_from_one ==
    /\ pc = "spawn"
    /\ Len(set) < Len(challenge.fragments)
    /\ set' = Append(set, [fragment |-> challenge.fragments[Len(set) + 1],
                           nonce |-> 1, state |-> "Scanning", joined |-> FALSE])
    /\ UNCHANGED <<seed, challenge, pc, panic, result, rx_cnt, sent, solution, verdict, tamper>>

\* ------------------------------------------------------------ the solver
\* lib.rs:39-41, one turn of the for loop: set.spawn(solve_fragment(..)).
Spawn ==
    /\ pc = "spawn"
    /\ Len(set) < Len(challenge.fragments)
    /\ set' = Append(set, [fragment |-> challenge.fragments[Len(set) + 1],
                           nonce |-> 0, state |-> "Scanning", joined |-> FALSE])
    /\ UNCHANGED <<seed, challenge, pc, panic, result, rx_cnt, sent, solution, verdict, tamper>>

\* solve_fragment with nonce += 1 ahead of the test: nonce 0 is never tried.
solve_fragment_preinc(i) ==
    /\ i \in 1 .. Len(set)
    /\ set[i].state = "Scanning"
    /\ set[i].nonce < MaxNonce
    /\ set' = [set EXCEPT ![i].nonce = set[i].nonce + 1,
                          ![i].state = IF hash_found(set[i].fragment, challenge.difficulty,
                                                     set[i].nonce + 1)
                                       THEN "Found" ELSE "Scanning"]
    /\ UNCHANGED <<seed, challenge, pc, panic, result, rx_cnt, sent, solution, verdict, tamper>>

\* solve_fragment that returns the nonce after the one it tested.
solve_fragment_postinc(i) ==
    /\ i \in 1 .. Len(set)
    /\ set[i].state = "Scanning"
    /\ IF hash_found(set[i].fragment, challenge.difficulty, set[i].nonce)
       THEN /\ set[i].nonce < MaxNonce
            /\ set' = [set EXCEPT ![i].state = "Found", ![i].nonce = set[i].nonce + 1]
       ELSE /\ set[i].nonce < MaxNonce
            /\ set' = [set EXCEPT ![i].nonce = set[i].nonce + 1]
    /\ UNCHANGED <<seed, challenge, pc, panic, result, rx_cnt, sent, solution, verdict, tamper>>

\* solve_fragment with the test inverted: it returns at the first nonce
\* that fails the predicate.
solve_fragment_inverted(i) ==
    /\ i \in 1 .. Len(set)
    /\ set[i].state = "Scanning"
    /\ IF ~hash_found(set[i].fragment, challenge.difficulty, set[i].nonce)
       THEN set' = [set EXCEPT ![i].state = "Found"]
       ELSE /\ set[i].nonce < MaxNonce
            /\ set' = [set EXCEPT ![i].nonce = set[i].nonce + 1]
    /\ UNCHANGED <<seed, challenge, pc, panic, result, rx_cnt, sent, solution, verdict, tamper>>

\* One turn of solve_fragment's loop (lib.rs:61-73) in task i.
solve_fragment(i) ==
    /\ i \in 1 .. Len(set)
    /\ set[i].state = "Scanning"
    /\ IF hash_found(set[i].fragment, challenge.difficulty, set[i].nonce)
       THEN set' = [set EXCEPT ![i].state = "Found"]
       ELSE /\ set[i].nonce < MaxNonce
            /\ set' = [set EXCEPT ![i].nonce = set[i].nonce + 1]
    /\ UNCHANGED <<seed, challenge, pc, panic, result, rx_cnt, sent, solution, verdict, tamper>>

\* A task that dies before it returns (a panic, or the runtime shutting
\* down): join_next will hand its JoinError to the aggregator.
TaskFail(i) ==
    /\ i \in 1 .. Len(set)
    /\ set[i].state = "Scanning"
    /\ set' = [set EXCEPT ![i].state = "Failed"]
    /\ UNCHANGED <<seed, challenge, pc, panic, result, rx_cnt, sent, solution, verdict, tamper>>

\* solve_challenge stands at set.join_next().await (lib.rs:44).
AtJoin ==
    \/ pc = "join"
    \/ pc = "spawn" /\ Len(set) = Len(challenge.fragments)

\* join_next handing the tasks out in spawn order (a FuturesOrdered for the
\* JoinSet).
JoinNext_in_order(i) ==
    /\ AtJoin
    /\ i \in 1 .. Len(set)
    /\ ~set[i].joined
    /\ \A k \in 1 .. i - 1 : set[k].joined
    /\ set[i].state = "Found"
    /\ set' = [set EXCEPT ![i].joined = TRUE]
    /\ result' = Append(result, <<set[i].fragment, set[i].nonce>>)
    /\ pc' = "send"
    /\ UNCHANGED <<seed, challenge, panic, rx_cnt, sent, solution, verdict, tamper>>

\* JoinNext that does not push a proof the result already holds.
JoinNext_dedup(i) ==
    /\ AtJoin
    /\ i \in 1 .. Len(set)
    /\ ~set[i].joined
    /\ set[i].state = "Found"
    /\ set' = [set EXCEPT ![i].joined = TRUE]
    /\ IF \E k \in 1 .. Len(result) : result[k] = <<set[i].fragment, set[i].nonce>>
       THEN result' = result /\ pc' = "join"
       ELSE result' = Append(result, <<set[i].fragment, set[i].nonce>>) /\ pc' = "send"
    /\ UNCHANGED <<seed, challenge, panic, rx_cnt, sent, solution, verdict, tamper>>

\* lib.rs:44-46: join_next yields task i's Ok value; it is pushed to result.
JoinNext(i) ==
    /\ AtJoin
    /\ i \in 1 .. Len(set)
    /\ ~set[i].joined
    /\ set[i].state = "Found"
    /\ set' = [set EXCEPT ![i].joined = TRUE]
    /\ result' = Append(result, <<set[i].fragment, set[i].nonce>>)
    /\ pc' = "send"
    /\ UNCHANGED <<seed, challenge, panic, rx_cnt, sent, solution, verdict, tamper>>

\* The aggregator skipping a JoinError instead of unwrapping it.
JoinErr_skip(i) ==
    /\ AtJoin
    /\ i \in 1 .. Len(set)
    /\ ~set[i].joined
    /\ set[i].state = "Failed"
    /\ set' = [set EXCEPT ![i].joined = TRUE]
    /\ pc' = "join"
    /\ UNCHANGED <<seed, challenge, panic, result, rx_cnt, sent, solution, verdict, tamper>>

\* lib.rs:44-45: join_next yields task i's JoinError; res.unwrap() panics.
JoinErr(i) ==
    /\ AtJoin
    /\ i \in 1 .. Len(set)
    /\ ~set[i].joined
    /\ set[i].state = "Failed"
    /\ set' = [set EXCEPT ![i].joined = TRUE]
    /\ pc' = "panicked"
    /\ panic' = "res.unwrap"
    /\ UNCHANGED <<seed, challenge, result, rx_cnt, sent, solution, verdict, tamper>>

\* Send that reports the first proof's nonce every time.
Send_first ==
    /\ pc = "send"
    /\ IF rx_cnt = 0
       THEN /\ pc' = "panicked"
            /\ panic' = "send.unwrap"
            /\ sent' = sent
       ELSE /\ pc' = "join"
            /\ panic' = panic
            /\ sent' = Append(sent, result[1][2])
    /\ UNCHANGED <<seed, challenge, set, result, rx_cnt, solution, verdict, tamper>>

\* lib.rs:49: progress.send(solution.1).unwrap().  broadcast::Sender::send
\* fails exactly when there is no live receiver.
Send ==
    /\ pc = "send"
    /\ IF rx_cnt = 0
       THEN /\ pc' = "panicked"
            /\ panic' = "send.unwrap"
            /\ sent' = sent
       ELSE /\ pc' = "join"
            /\ panic' = panic
            /\ sent' = Append(sent, result[Len(result)][2])
    /\ UNCHANGED <<seed, challenge, set, result, rx_cnt, solution, verdict, tamper>>

\* Return as soon as no finished task is waiting (try_join_next for
\* join_next().await).
Return_early ==
    /\ AtJoin
    /\ \A i \in 1 .. Len(set) : set[i].joined \/ set[i].state = "Scanning"
    /\ solution' = [proofs |-> result]
    /\ pc' = "returned"
    /\ UNCHANGED <<seed, challenge, set, panic, result, rx_cnt, sent, verdict, tamper>>

\* lib.rs:44, 52-54: join_next yields None on the empty set; the Solution is
\* returned.
Return ==
    /\ AtJoin
    /\ \A i \in 1 .. Len(set) : set[i].joined
    /\ solution' = [proofs |-> result]
    /\ pc' = "returned"
    /\ UNCHANGED <<seed, challenge, set, panic, result, rx_cnt, sent, verdict, tamper>>

\* The holder of a progress Receiver drops it.
DropReceiver ==
    /\ rx_cnt > 0
    /\ pc \in {"spawn", "join", "send"}
    /\ rx_cnt' = rx_cnt - 1
    /\ UNCHANGED <<seed, challenge, set, pc, panic, result, sent, solution, verdict, tamper>>

\* The caller checks a solution: the one solve_challenge returned
\* (lib.rs:133) or one it was given.
Verify ==
    /\ pc \in {"returned", "given"}
    /\ verdict' = verify_solution(challenge, solution)
    /\ pc' = "verified"
    /\ UNCHANGED <<seed, challenge, set, panic, result, rx_cnt, sent, solution, tamper>>

Next ==
    \/ Spawn
    \/ \E i \in 1 .. MaxFragments : solve_fragment(i)
    \/ \E i \in 1 .. MaxFragments : TaskFail(i)
    \/ \E i \in 1 .. MaxFragments : JoinNext(i)
    \/ \E i \in 1 .. MaxFragments : JoinErr(i)
    \/ Send
    \/ Return
    \/ DropReceiver
    \/ Verify

Spec == Init /\ [][Next]_vars

\* ------------------------------------------- the caller of verify_solution
\* A (Challenge, Solution) pair as a caller may hand to verify_solution: any
\* challenge, any list of at most MaxProofs proofs.
InitVerify ==
    /\ seed \in Seeds
    /\ \E d \in Words, k \in 0 .. MaxFragments : challenge \in create_challenge(d, k)
    /\ set = <<>>
    /\ pc = "given"
    /\ panic = "none"
    /\ result = <<>>
    /\ rx_cnt = 0
    /\ sent = <<>>
    /\ solution \in {[proofs |-> ps] : ps \in SeqsUpTo(Blobs \X Nonces, MaxProofs)}
    /\ verdict = "none"
    /\ tamper = NoTamper

\* The solution p, changed, is verified again (spec section 8, tamper
\* detection: the changes are made to a solution that verified).
Reverify(p, how) ==
    /\ pc = "verified"
    /\ verdict = TRUE
    /\ solution' = [proofs |-> p]
    /\ tamper' = how
    /\ verdict' = verify_solution(challenge, [proofs |-> p])
    /\ pc' = "tampered"
    /\ UNCHANGED <<seed, challenge, set, panic, result, rx_cnt, sent>>

\* Proof j is taken out of the solution.
RemoveProof(j) ==
    /\ j \in 1 .. Len(solution.proofs)
    /\ Reverify(RemoveAt(solution.proofs, j),
                [kind |-> "remove", proof |-> solution.proofs[j]])

\* Proof j's nonce is replaced by n.
ReplaceNonce(j, n) ==
    /\ j \in 1 .. Len(solution.proofs)
    /\ n # solution.proofs[j][2]
    /\ Reverify([solution.proofs EXCEPT ![j] = <<solution.proofs[j][1], n>>],
                [kind |-> "nonce", proof |-> <<solution.proofs[j][1], n>>])

\* Proof (f, n) is added to the solution.
AddProof(f, n) ==
    /\ Len(solution.proofs) < MaxProofs
    /\ Reverify(Append(solution.proofs, <<f, n>>),
                [kind |-> "add", proof |-> <<f, n>>])

NextVerify ==
    \/ Verify
    \/ \E j \in 1 .. MaxProofs : RemoveProof(j)
    \/ \E j \in 1 .. MaxProofs, n \in Nonces : ReplaceNonce(j, n)
    \/ \E f \in Blobs, n \in Nonces : AddProof(f, n)

SpecVerify == InitVerify /\ [][NextVerify]_vars

\* ------------------------------------------- the solver without faults
\* The test's run (lib.rs:110-135): a receiver is alive for every send and
\* no task dies; the runtime's worker threads run every task that can run
\* and the aggregator.
InitLive == Init /\ rx_cnt = 1

Aggregator ==
    \/ Spawn
    \/ \E i \in 1 .. MaxFragments : JoinNext(i)
    \/ Send
    \/ Return
    \/ Verify

NextLive ==
    \/ Aggregator
    \/ \E i \in 1 .. MaxFragments : solve_fragment(i)

LiveSpec ==
    /\ InitLive
    /\ [][NextLive]_vars
    /\ WF_vars(Aggregator)
    /\ \A i \in 1 .. MaxFragments : WF_vars(solve_fragment(i))

\* ------------------------------------------------ solver and caller
\* Both ways a (Challenge, Solution) pair reaches verify_solution: from
\* solve_challenge, or handed over by a caller, who may then change it.
InitAll == Init \/ InitVerify

NextAll == Next \/ NextVerify

SpecAll == InitAll /\ [][NextAll]_vars

\* ----------------------------------------------------------------- claims
\* solve_challenge has returned its Solution.
Returned == pc \in {"returned", "verified"}

FragmentsOf(c) == {c.fragments[i] : i \in 1 .. Len(c.fragments)}

\* verify_solution has been applied to the solution at hand.
Checked == pc \in {"verified", "tampered"}

\* Some fragment of c has no proof in s.
Lacks(c, s) ==
    \E i \in 1 .. Len(c.fragments) :
        \A j \in 1 .. Len(s.proofs) : s.proofs[j][1] # c.fragments[i]

\* Proof j of s satisfies the predicate at c's difficulty.
ProofHolds(c, s, j) == hash_found(s.proofs[j][1], c.difficulty, s.proofs[j][2])

\* The nonces of a list of proofs, in order.
NoncesOf(ps) == [k \in 1 .. Len(ps) |-> ps[k][2]]

\* The fragments of a list of proofs, in order.
ProofFragments(ps) == [k \in 1 .. Len(ps) |-> ps[k][1]]

\* The scan of every fragment of the challenge ends the same way in the
\* model as in the program: some nonce within the bound satisfies the
\* predicate, or the threshold is 0 and no nonce at all does.
ScanFitsBound ==
    \/ U32_MAX - challenge.difficulty = 0
    \/ \A f \in FragmentsOf(challenge) :
           \E n \in Nonces : hash_found(f, challenge.difficulty, n)

\* C1 as stated: for every difficulty and every number of fragments, with a
\* live receiver, solve_challenge returns a Solution and verify_solution of
\* the challenge and that Solution is true.
C1_RoundTripTotal ==
    ScanFitsBound => <>(pc = "verified" /\ verdict = TRUE)

\* C1 amended: whenever solve_challenge returns a Solution (at the largest
\* difficulty with at least one fragment it never does), verify_solution of
\* the challenge and that Solution is true.
C1_RoundTrip ==
    pc = "verified" => /\ verdict = TRUE
                       /\ solution.proofs = result

C1_Witness ==
    /\ pc = "verified"
    /\ verdict = TRUE
    /\ Len(challenge.fragments) = 2
    /\ challenge.fragments[1] # challenge.fragments[2]
    /\ \E j \in 1 .. Len(solution.proofs) : solution.proofs[j][2] > 0

\* C2 as stated: a send on a progress channel without a live receiver does
\* not abort solve_challenge.
C2_SendFailureSwallowed ==
    panic # "send.unwrap"

\* C3 as stated: removing from a solution that verified any one proof whose
\* fragment is a fragment of the challenge gives a solution that does not
\* verify.
C3_RemoveAnyProof ==
    (tamper.kind = "remove" /\ tamper.proof[1] \in FragmentsOf(challenge))
        => verdict = FALSE

\* C3 amended: removing from a solution that verified one proof whose
\* fragment is a fragment of the challenge gives a solution that does not
\* verify exactly when no other proof of the solution has that fragment.
C3_RemoveOnlyProof ==
    (tamper.kind = "remove" /\ tamper.proof[1] \in FragmentsOf(challenge))
        => (verdict = FALSE <=>
                \A j \in 1 .. Len(solution.proofs) :
                    solution.proofs[j][1] # tamper.proof[1])

C3_Witness ==
    /\ tamper.kind = "remove"
    /\ Len(challenge.fragments) = 2
    /\ challenge.fragments[1] # challenge.fragments[2]
    /\ Len(solution.proofs) = 1
    /\ verdict = FALSE

\* C4 as stated: verify_solution is false whenever the solution lacks a proof
\* for a fragment of the challenge, and whenever it holds a proof whose
\* fragment is not a fragment of the challenge.
C4_ExtraProofRejected ==
    Checked =>
        ((\/ Lacks(challenge, solution)
          \/ \E j \in 1 .. Len(solution.proofs) :
                 solution.proofs[j][1] \notin FragmentsOf(challenge))
            => verdict = FALSE)

\* C4 amended: verify_solution is false whenever the solution lacks a proof
\* for a fragment of the challenge, and whenever it holds a proof, for a
\* fragment of the challenge or not, that fails hash_found at the challenge's
\* difficulty; it is true of every other solution, a proof for a fragment
\* outside the challenge included.
C4_MissingOrFailingProof ==
    Checked =>
        /\ Lacks(challenge, solution) => verdict = FALSE
        /\ (\E j \in 1 .. Len(solution.proofs) : ~ProofHolds(challenge, solution, j))
               => verdict = FALSE
        /\ (/\ ~Lacks(challenge, solution)
            /\ \A j \in 1 .. Len(solution.proofs) : ProofHolds(challenge, solution, j))
               => verdict = TRUE

C4_Witness ==
    /\ pc = "verified"
    /\ verdict = TRUE
    /\ Len(challenge.fragments) = 1
    /\ \E j \in 1 .. Len(solution.proofs) :
           solution.proofs[j][1] \notin FragmentsOf(challenge)

\* C5: replacing, in a solution that verified, the nonce of one proof (f, n)
\* by a nonce n' with hash_found(f, difficulty, n') false gives a solution
\* that does not verify.
C5_WrongNonceDetected ==
    (/\ tamper.kind = "nonce"
     /\ ~hash_found(tamper.proof[1], challenge.difficulty, tamper.proof[2]))
        => verdict = FALSE

C5_Witness ==
    /\ tamper.kind = "nonce"
    /\ ~hash_found(tamper.proof[1], challenge.difficulty, tamper.proof[2])
    /\ Len(solution.proofs) = 2
    /\ solution.proofs[2] = tamper.proof
    /\ solution.proofs[1][1] # tamper.proof[1]
    /\ verdict = FALSE

\* C6: every proof (f, n) of the Solution solve_challenge returns satisfies
\* hash_found(f, difficulty, n), and no m < n satisfies hash_found(f,
\* difficulty, m).
C6_Minimality ==
    Returned =>
        \A j \in 1 .. Len(solution.proofs) :
            /\ hash_found(solution.proofs[j][1], challenge.difficulty, solution.proofs[j][2])
            /\ \A m \in 0 .. solution.proofs[j][2] - 1 :
                   ~hash_found(solution.proofs[j][1], challenge.difficulty, m)

C6_Witness ==
    /\ Returned
    /\ Len(solution.proofs) = 2
    /\ solution.proofs[1][2] > 0
    /\ solution.proofs[2][2] = 0

\* C7: when solve_challenge has returned, every fragment's task was spawned,
\* reached Found and was joined, and the fragments of the Solution's proofs
\* are, as a multiset, the fragments of the challenge.
C7_OneProofPerFragment ==
    Returned =>
        /\ Len(set) = Len(challenge.fragments)
        /\ \A i \in 1 .. Len(set) : set[i].state = "Found" /\ set[i].joined
        /\ BagOfSeq(ProofFragments(solution.proofs)) = BagOfSeq(challenge.fragments)
        /\ Len(solution.proofs) = Len(challenge.fragments)

C7_Witness ==
    /\ Returned
    /\ Len(challenge.fragments) = 2
    /\ challenge.fragments[1] = challenge.fragments[2]
    /\ Len(solution.proofs) = 2

\* C8: once a fragment task has failed, solve_challenge does not return a
\* Solution, partial or full.
C8_TaskFailureFatal ==
    (\E i \in 1 .. Len(set) : set[i].state = "Failed") => ~Returned

C8_Witness ==
    /\ panic = "res.unwrap"
    /\ Len(result) = 1
    /\ Len(set) = 2
    /\ \E i \in 1 .. Len(set) : set[i].state = "Failed" /\ set[i].joined

\* C9: on a challenge without fragments solve_challenge spawns no task,
\* sends nothing, cannot abort, has nothing to wait for (it can return at
\* once) and returns a Solution without proofs, which verifies.
C9_NoFragments ==
    Len(challenge.fragments) = 0 =>
        /\ set = <<>>
        /\ sent = <<>>
        /\ result = <<>>
        /\ panic = "none"
        /\ pc \in {"spawn", "returned", "verified"}
        /\ pc = "spawn" => ENABLED Return
        /\ Returned => solution.proofs = <<>>
        /\ pc = "verified" => verdict = TRUE

C9_Witness ==
    /\ Len(challenge.fragments) = 0
    /\ pc = "verified"
    /\ verdict = TRUE
    /\ challenge.difficulty = U32_MAX
    /\ rx_cnt = 0

\* C10: one progress message per recorded proof, carrying that proof's nonce,
\* sent after the proof is pushed and before the next join: the messages sent
\* are never more than the proofs recorded and at most one fewer, they are a
\* prefix of the recorded nonces, the aggregator waits for the next
\* completion only with all of them sent, and on return there is one per
\* fragment.
C10_ProgressOrdering ==
    /\ Len(sent) <= Len(result)
    /\ Len(result) <= Len(sent) + 1
    /\ sent = SubSeq(NoncesOf(result), 1, Len(sent))
    /\ pc = "send" => Len(result) = Len(sent) + 1
    /\ (AtJoin \/ Returned) => sent = NoncesOf(result)
    /\ Returned => Len(sent) = Len(challenge.fragments)

C10_Witness ==
    /\ pc = "send"
    /\ Len(sent) = 1
    /\ Len(result) = 2
    /\ result[1][2] # result[2][2]

\* C11: verify_solution always returns a boolean, and it returns true exactly
\* when every fragment of the challenge is the fragment of some proof of the
\* solution and every proof of the solution satisfies hash_found at the
\* challenge's difficulty; empty fragment and proof lists included.
C11_CompleteAndSound ==
    Checked =>
        /\ verdict \in BOOLEAN
        /\ verdict <=>
               /\ \A f \in FragmentsOf(challenge) :
                      \E j \in 1 .. Len(solution.proofs) : solution.proofs[j][1] = f
               /\ \A j \in 1 .. Len(solution.proofs) :
                      hash_found(solution.proofs[j][1], challenge.difficulty,
                                 solution.proofs[j][2])

C11_Witness ==
    /\ pc = "verified"
    /\ challenge.fragments = <<>>
    /\ Len(solution.proofs) = 1
    /\ verdict = FALSE

\* C12: adding to a solution that verified a proof (f, n) with
\* hash_found(f, difficulty, n) gives a solution that verifies, whether f is
\* a fragment of the challenge or not and whether the solution already
\* holds a proof for f or not.
C12_ValidProofAdded ==
    (/\ tamper.kind = "add"
     /\ hash_found(tamper.proof[1], challenge.difficulty, tamper.proof[2]))
        => verdict = TRUE

\* an extraneous proof: its fragment is not in the challenge
C12_Witness ==
    /\ tamper.kind = "add"
    /\ Len(challenge.fragments) = 1
    /\ tamper.proof[1] \notin FragmentsOf(challenge)
    /\ Len(solution.proofs) = 2
    /\ verdict = TRUE

\* a duplicate proof: the solution held a proof for its fragment already
C12_WitnessDuplicate ==
    /\ tamper.kind = "add"
    /\ Len(challenge.fragments) = 1
    /\ Len(solution.proofs) = 2
    /\ solution.proofs[1][1] = tamper.proof[1]
    /\ tamper.proof[1] \in FragmentsOf(challenge)
    /\ verdict = TRUE

\* The rearrangements of a sequence.
RECURSIVE Rearrangements(_)
Rearrangements(s) ==
    IF Len(s) <= 1 THEN {s}
    ELSE UNION {{<<s[i]>> \o t : t \in Rearrangements(RemoveAt(s, i))} : i \in 1 .. Len(s)}

\* C13: the aggregator may take any finished task next, whatever its place in
\* the fragment list, so the order of the proofs (and of the progress
\* messages) is the order of completion; and verify_solution gives, for
\* every rearrangement of the solution's proofs and of the challenge's
\* fragments, the verdict it gave.
C13_OrderUnconstrained ==
    /\ AtJoin =>
           \A i \in 1 .. Len(set) :
               (set[i].state = "Found" /\ ~set[i].joined) => ENABLED JoinNext(i)
    /\ pc = "verified" =>
           /\ \A ps \in Rearrangements(solution.proofs) :
                  verify_solution(challenge, [proofs |-> ps]) = verdict
           /\ \A fs \in Rearrangements(challenge.fragments) :
                  verify_solution([difficulty |-> challenge.difficulty, fragments |-> fs],
                                  solution) = verdict

\* the Solution of a challenge with two different fragments, in the order
\* opposite to the fragments', with different nonces, sent in that order
C13_Witness ==
    /\ pc = "verified"
    /\ tamper.kind = "none"
    /\ Len(challenge.fragments) = 2
    /\ Len(solution.proofs) = 2
    /\ solution.proofs[1][1] = challenge.fragments[2]
    /\ solution.proofs[2][1] = challenge.fragments[1]
    /\ solution.proofs[1][1] # solution.proofs[2][1]
    /\ solution.proofs[1][2] # solution.proofs[2][2]
    /\ sent = NoncesOf(solution.proofs)

\* the same challenge's Solution in the order of the fragments
C13_WitnessInOrder ==
    /\ pc = "verified"
    /\ tamper.kind = "none"
    /\ Len(challenge.fragments) = 2
    /\ Len(solution.proofs) = 2
    /\ solution.proofs[1][1] = challenge.fragments[1]
    /\ solution.proofs[2][1] = challenge.fragments[2]
    /\ solution.proofs[1][1] # solution.proofs[2][1]
    /\ solution.proofs[1][2] # solution.proofs[2][2]
    /\ sent = NoncesOf(solution.proofs)

\* What every reachable state shows of task i's scan: it scans its own
\* fragment, every nonce below its current one fails the predicate, and a
\* Found task's nonce satisfies it.
ScanInv(i) ==
    /\ set[i].fragment = challenge.fragments[i]
    /\ set[i].nonce \in Nonces
    /\ \A m \in 0 .. set[i].nonce - 1 :
           ~hash_found(set[i].fragment, challenge.difficulty, m)
    /\ set[i].state = "Found" =>
           hash_found(set[i].fragment, challenge.difficulty, set[i].nonce)

\* What one step may do to task i: a task is created Scanning at nonce 0; its
\* fragment never changes; while Scanning its nonce moves only from n to
\* n + 1 and only when hash_found at n is false; it turns Found only when
\* hash_found at its nonce is true, keeping that nonce; once Found it keeps
\* state and nonce.
ScanStep(i) ==
    IF i > Len(set)
    THEN set'[i].nonce = 0 /\ set'[i].state = "Scanning"
    ELSE /\ set'[i].fragment = set[i].fragment
         /\ set'[i].nonce # set[i].nonce =>
                /\ set[i].state = "Scanning" /\ set'[i].state = "Scanning"
                /\ set'[i].nonce = set[i].nonce + 1
                /\ ~hash_found(set[i].fragment, challenge.difficulty, set[i].nonce)
         /\ (set[i].state = "Scanning" /\ set'[i].state = "Found") =>
                /\ set'[i].nonce = set[i].nonce
                /\ hash_found(set[i].fragment, challenge.difficulty, set[i].nonce)
         /\ set[i].state = "Found" =>
                set'[i].state = "Found" /\ set'[i].nonce = set[i].nonce

\* C14: each fragment task runs the scan state machine Scanning(0) ->
\* Scanning(1) -> ... -> Found(n): it starts at nonce 0, steps from n to
\* n + 1 exactly when hash_found(fragment, difficulty, n) is false, never
\* changes fragment or nonce once Found, and in every reachable state all
\* nonces below its current nonce fail the predicate for its fragment.
C14_ScanStateMachine ==
    /\ [](\A i \in 1 .. Len(set) : ScanInv(i))
    /\ [][/\ Len(set') >= Len(set)
          /\ \A i \in 1 .. Len(set') : ScanStep(i)]_vars

C14_Witness ==
    /\ Len(set) = 2
    /\ set[1].state = "Found" /\ set[1].nonce = 1
    /\ set[2].state = "Scanning" /\ set[2].nonce = 1
    /\ set[1].fragment # set[2].fragment

\* Some nonce within the bound satisfies the predicate for every fragment
\* of the challenge.
Solvable ==
    \A f \in FragmentsOf(challenge) :
        \E n \in Nonces : hash_found(f, challenge.difficulty, n)

\* C15: with the tasks and the aggregator scheduled fairly, a live receiver
\* and no task failure, if every fragment of the challenge has a nonce that
\* satisfies hash_found at the challenge's difficulty, then eventually every
\* fragment's task has been spawned and is Found and solve_challenge has
\* returned; and no task is ever given up before it is Found.
C15_Termination ==
    /\ Solvable =>
           <>(/\ Returned
              /\ Len(set) = Len(challenge.fragments)
              /\ \A i \in 1 .. Len(set) : set[i].state = "Found")
    /\ [](\A i \in 1 .. Len(set) :
              /\ set[i].state \in {"Scanning", "Found"}
              /\ set[i].joined => set[i].state = "Found")

C15_Witness ==
    /\ Solvable
    /\ pc = "returned"
    /\ Len(set) = 2
    /\ set[1].nonce = 1
    /\ set[2].nonce = 1
    /\ set[1].fragment # set[2].fragment

\* The nonce solve_fragment returns for a fragment at a difficulty: the least
\* nonce satisfying hash_found, or MaxNonce + 1 when the scan finds none
\* within the bound.
MinNonce(f, d) ==
    IF \E n \in Nonces : hash_found(f, d, n)
    THEN CHOOSE n \in Nonces :
             /\ hash_found(f, d, n)
             /\ \A m \in 0 .. n - 1 : ~hash_found(f, d, m)
    ELSE MaxNonce + 1

HasDuplicates ==
    \E i, j \in 1 .. Len(challenge.fragments) :
        i # j /\ challenge.fragments[i] = challenge.fragments[j]

\* How many times x occurs in the sequence s.
Occurrences(s, x) == Cardinality({k \in 1 .. Len(s) : s[k] = x})

\* C17: when the challenge lists a fragment more than once, solve_challenge
\* runs one task per occurrence, the tasks of equal fragments finish with the
\* same nonce, the returned Solution holds that one proof as many times as
\* the fragment occurs in the challenge, and verify_solution of the challenge
\* and that Solution is true.
C17_DuplicateFragments ==
    HasDuplicates =>
        /\ Len(set) <= Len(challenge.fragments)
        /\ \A i \in 1 .. Len(set) : set[i].fragment = challenge.fragments[i]
        /\ AtJoin => Len(set) = Len(challenge.fragments)
        /\ \A i, j \in 1 .. Len(set) :
               /\ set[i].fragment = set[j].fragment
               /\ set[i].state = "Found"
               /\ set[j].state = "Found"
               => set[i].nonce = set[j].nonce
        /\ Returned =>
               /\ \A j, k \in 1 .. Len(solution.proofs) :
                      solution.proofs[j][1] = solution.proofs[k][1] =>
                          solution.proofs[j] = solution.proofs[k]
               /\ \A j \in 1 .. Len(solution.proofs) :
                      Occurrences(solution.proofs, solution.proofs[j])
                          = Occurrences(challenge.fragments, solution.proofs[j][1])
               /\ \A f \in FragmentsOf(challenge) :
                      \E j \in 1 .. Len(solution.proofs) : solution.proofs[j][1] = f
        /\ pc = "verified" => verdict = TRUE

C17_Witness ==
    /\ pc = "verified"
    /\ HasDuplicates
    /\ Len(solution.proofs) = 2
    /\ solution.proofs[1] = solution.proofs[2]
    /\ solution.proofs[1][2] = 1
    /\ verdict = TRUE

\* C18: at difficulty U32_MAX the threshold is 0 and hash_found is false for
\* every fragment and nonce; verify_solution is true only for a challenge
\* without fragments and a solution without proofs; and with at least one
\* fragment no task reaches Found, nothing is pushed or sent, and
\* solve_challenge never returns.
C18_MaxDifficulty ==
    challenge.difficulty = U32_MAX =>
        /\ Threshold(challenge.difficulty) = 0
        /\ \A f \in Blobs, n \in Nonces : ~hash_found(f, challenge.difficulty, n)
        /\ (Checked /\ verdict = TRUE) =>
               /\ challenge.fragments = <<>>
               /\ solution.proofs = <<>>
        /\ \A i \in 1 .. Len(set) : set[i].state # "Found"
        /\ Len(challenge.fragments) >= 1 =>
               /\ pc \notin {"send", "returned"}
               /\ result = <<>>
               /\ sent = <<>>
               /\ \A i \in 1 .. Len(set) : ~ENABLED JoinNext(i)

C18_Witness ==
    /\ challenge.difficulty = U32_MAX
    /\ AtJoin
    /\ Len(set) = 2
    /\ \A i \in 1 .. Len(set) : set[i].state = "Scanning" /\ set[i].nonce = MaxNonce

C18_WitnessVerify ==
    /\ challenge.difficulty = U32_MAX
    /\ pc = "verified"
    /\ verdict = FALSE
    /\ challenge.fragments = <<>>
    /\ Len(solution.proofs) = 1

====
